---- MODULE Spec2Model ----
(***************************************************************************)
(* Model of ExternalService (src/src/services/external.service.ts): the    *)
(* circuit breaker (checkCircuitBreaker / registerSuccess /                *)
(* registerFailure), the retry delay (calculateRetryDelay) and the         *)
(* request() method, whose code between two `await`s is one atomic step of *)
(* the single-threaded event loop.  Several request() calls run            *)
(* concurrently on one service instance and share its breaker fields.      *)
(***************************************************************************)
EXTENDS Integers, Sequences, FiniteSets, Bags, TLC

\* ------------------------------------------------------------------ bounds
NumCalls == 2            \* request() calls in progress at the same time
MaxTime == 3             \* last value of the clock
MaxFailureThreshold == 2 \* failureThreshold is 1 or MaxFailureThreshold
MaxResetTimeout == 1     \* resetTimeoutMs
MaxHalfOpen == 1         \* halfOpenRequestThreshold
MaxRetries == 1          \* retries is 0 or MaxRetries
MaxMinTimeout == 2       \* minTimeout is 1 or MaxMinTimeout; maxTimeout is one more
MaxAttempt == 4          \* attempt numbers given to calculateRetryDelay() on its own

\* ------------------------------------------------------------- arithmetic
RECURSIVE Pow(_, _)
Pow(b, e) == IF e <= 0 THEN 1 ELSE b * Pow(b, e - 1)

\* non-negative rationals [n, d] with d > 0, for the floating-point delay
Rat(n, d) == [n |-> n, d |-> d]
RatLeq(x, y) == x.n * y.d <= y.n * x.d
RatMin(x, y) == IF RatLeq(y, x) THEN y ELSE x
RatMax(x, y) == IF RatLeq(x, y) THEN y ELSE x
RatFloor(x) == x.n \div x.d

\* --------------------------------------------------------------- variables
VARIABLES
  retryOptions,          \* this.retryOptions (set by the constructor)
  circuitBreakerOptions, \* this.circuitBreakerOptions (set by the constructor)
  cb,                    \* circuitState, failureCount, lastFailureTime, halfOpenRequests
  now,                   \* Date.now()
  calls,                 \* the bag of request() calls in progress, one record
                         \* each: where the call is suspended (pc), its locals
                         \* (attempt, lastError, the response status being
                         \* read, the backoff timer) and its history
  last,                  \* history: the step just taken (its action, the
                         \* breaker operations it applied, the breaker fields
                         \* before it, the record of the call that took it)
  failuresSinceSuccess,  \* history: registerFailure() calls since the last
                         \* registerSuccess()
  retryDelay,            \* the last calculateRetryDelay(attempt) evaluated on
                         \* its own: the attempt, the Math.random() draw and
                         \* the value returned
  health,                \* the healthCheck() / checkHealth() call in progress
  stats                  \* history: what getCircuitBreakerStats() returned when
                         \* the step just taken was a call of it

vars == <<retryOptions, circuitBreakerOptions, cb, now, calls, last,
          failuresSinceSuccess, retryDelay, health, stats>>

\* ------------------------------------------------------------------ errors
NoError == [name |-> "none", msg |-> "none", status |-> 0, cause |-> "none", attemptsMade |-> 0]
\* new Error(`Circuit breaker for ... is open`)
CircuitOpenError == [name |-> "Error", msg |-> "circuit-open", status |-> 0, cause |-> "none", attemptsMade |-> 0]
\* new Error(`Circuit breaker for ... is half-open and request limit reached`)
HalfOpenLimitError == [name |-> "Error", msg |-> "half-open-limit", status |-> 0, cause |-> "none", attemptsMade |-> 0]
\* whatever authenticate() threw (GCPRunExternalService throws ExternalServiceError)
AuthError == [name |-> "ExternalServiceError", msg |-> "auth", status |-> 0, cause |-> "token", attemptsMade |-> 0]
\* new RetryableError(errorText, response.status)
RetryableError(s) == [name |-> "RetryableError", msg |-> "http", status |-> s, cause |-> "none", attemptsMade |-> 0]
\* new ExternalServiceError(errorText, { statusCode: response.status })
ExternalServiceError(s) == [name |-> "ExternalServiceError", msg |-> "http", status |-> s, cause |-> "none", attemptsMade |-> 0]
\* new ExternalServiceError('Failed to parse JSON response', { cause: parseError })
ParseError == [name |-> "ExternalServiceError", msg |-> "parse", status |-> 0, cause |-> "parseError", attemptsMade |-> 0]
\* new ExternalServiceError('Request loop completed without success or error capture.')
UnexpectedError == [name |-> "ExternalServiceError", msg |-> "loop-completed", status |-> 0, cause |-> "none", attemptsMade |-> 0]
\* fetch() rejects with a TypeError on a network failure
NetworkError == [name |-> "TypeError", msg |-> "network", status |-> 0, cause |-> "none", attemptsMade |-> 0]
\* fetch() rejects with the abort reason: new Error(`Request timed out after ...`)
TimeoutError == [name |-> "Error", msg |-> "timeout", status |-> 0, cause |-> "none", attemptsMade |-> 0]

\* fetch() rejects with the abort reason: new Error('Request aborted by external signal')
ExternalAbortError == [name |-> "Error", msg |-> "external-abort", status |-> 0, cause |-> "none", attemptsMade |-> 0]

IsCircuitError(e) == e.msg \in {"circuit-open", "half-open-limit"}

\* --------------------------------------------------------- circuit breaker
\* variant: the reset timeout compared with >= instead of >
checkCircuitBreakerAtTimeout(b, t) ==
  IF ~circuitBreakerOptions.enabled
  THEN [cb |-> b, threw |-> FALSE, error |-> NoError]
  ELSE
    LET b1 == IF b.circuitState = "open" /\ t - b.lastFailureTime >= circuitBreakerOptions.resetTimeoutMs
              THEN [b EXCEPT !.circuitState = "half-open", !.halfOpenRequests = 0]
              ELSE b
    IN IF b1.circuitState = "open"
       THEN [cb |-> b1, threw |-> TRUE, error |-> CircuitOpenError]
       ELSE IF b1.circuitState = "half-open"
               /\ b1.halfOpenRequests >= circuitBreakerOptions.halfOpenRequestThreshold
            THEN [cb |-> b1, threw |-> TRUE, error |-> HalfOpenLimitError]
            ELSE [cb |-> b1, threw |-> FALSE, error |-> NoError]

\* variant: an open circuit within its reset timeout is logged but not thrown
checkCircuitBreakerNoThrow(b, t) ==
  IF ~circuitBreakerOptions.enabled
  THEN [cb |-> b, threw |-> FALSE, error |-> NoError]
  ELSE
    LET b1 == IF b.circuitState = "open" /\ t - b.lastFailureTime > circuitBreakerOptions.resetTimeoutMs
              THEN [b EXCEPT !.circuitState = "half-open", !.halfOpenRequests = 0]
              ELSE b
    IN IF b1.circuitState = "half-open"
          /\ b1.halfOpenRequests >= circuitBreakerOptions.halfOpenRequestThreshold
       THEN [cb |-> b1, threw |-> TRUE, error |-> HalfOpenLimitError]
       ELSE [cb |-> b1, threw |-> FALSE, error |-> NoError]

\* variant: once the reset timeout has passed the circuit is 'closed' again
\* at once, without a half-open trial
checkCircuitBreakerClosing(b, t) ==
  IF ~circuitBreakerOptions.enabled
  THEN [cb |-> b, threw |-> FALSE, error |-> NoError]
  ELSE
    LET b1 == IF b.circuitState = "open" /\ t - b.lastFailureTime > circuitBreakerOptions.resetTimeoutMs
              THEN [b EXCEPT !.circuitState = "closed", !.failureCount = 0]
              ELSE b
    IN IF b1.circuitState = "open"
       THEN [cb |-> b1, threw |-> TRUE, error |-> CircuitOpenError]
       ELSE IF b1.circuitState = "half-open"
               /\ b1.halfOpenRequests >= circuitBreakerOptions.halfOpenRequestThreshold
            THEN [cb |-> b1, threw |-> TRUE, error |-> HalfOpenLimitError]
            ELSE [cb |-> b1, threw |-> FALSE, error |-> NoError]

\* checkCircuitBreaker(): the breaker fields after the call and whether it threw
checkCircuitBreaker(b, t) ==
  IF ~circuitBreakerOptions.enabled
  THEN [cb |-> b, threw |-> FALSE, error |-> NoError]
  ELSE
    LET b1 == IF b.circuitState = "open" /\ t - b.lastFailureTime > circuitBreakerOptions.resetTimeoutMs
              THEN [b EXCEPT !.circuitState = "half-open", !.halfOpenRequests = 0]
              ELSE b
    IN IF b1.circuitState = "open"
       THEN [cb |-> b1, threw |-> TRUE, error |-> CircuitOpenError]
       ELSE IF b1.circuitState = "half-open"
               /\ b1.halfOpenRequests >= circuitBreakerOptions.halfOpenRequestThreshold
            THEN [cb |-> b1, threw |-> TRUE, error |-> HalfOpenLimitError]
            ELSE [cb |-> b1, threw |-> FALSE, error |-> NoError]

\* variant: a success in 'closed' leaves failureCount alone
registerSuccessKeepCount(b) ==
  IF ~circuitBreakerOptions.enabled THEN b
  ELSE IF b.circuitState = "half-open"
       THEN [b EXCEPT !.circuitState = "closed", !.failureCount = 0, !.halfOpenRequests = 0]
       ELSE b

\* variant: a success in 'half-open' closes the circuit without resetting
\* halfOpenRequests
registerSuccessKeepHalfOpen(b) ==
  IF ~circuitBreakerOptions.enabled THEN b
  ELSE IF b.circuitState = "half-open"
       THEN [b EXCEPT !.circuitState = "closed", !.failureCount = 0]
       ELSE IF b.circuitState = "closed"
            THEN (IF b.failureCount > 0 THEN [b EXCEPT !.failureCount = 0] ELSE b)
            ELSE b

\* variant: a success closes the circuit from 'open' as well
registerSuccessClosesOpen(b) ==
  IF ~circuitBreakerOptions.enabled THEN b
  ELSE IF b.circuitState \in {"half-open", "open"}
       THEN [b EXCEPT !.circuitState = "closed", !.failureCount = 0, !.halfOpenRequests = 0]
       ELSE IF b.circuitState = "closed"
            THEN (IF b.failureCount > 0 THEN [b EXCEPT !.failureCount = 0] ELSE b)
            ELSE b

\* variant: a success in 'half-open' closes the circuit without resetting
\* failureCount
registerSuccessKeepFailures(b) ==
  IF ~circuitBreakerOptions.enabled THEN b
  ELSE IF b.circuitState = "half-open"
       THEN [b EXCEPT !.circuitState = "closed", !.halfOpenRequests = 0]
       ELSE IF b.circuitState = "closed"
            THEN (IF b.failureCount > 0 THEN [b EXCEPT !.failureCount = 0] ELSE b)
            ELSE b

\* registerSuccess()
registerSuccess(b) ==
  IF ~circuitBreakerOptions.enabled THEN b
  ELSE IF b.circuitState = "half-open"
       THEN [b EXCEPT !.circuitState = "closed", !.failureCount = 0, !.halfOpenRequests = 0]
       ELSE IF b.circuitState = "closed"
            THEN (IF b.failureCount > 0 THEN [b EXCEPT !.failureCount = 0] ELSE b)
            ELSE b

\* variant: the threshold compared with > instead of >=
registerFailureStrict(b, t) ==
  IF ~circuitBreakerOptions.enabled THEN b
  ELSE
    LET b1 == [b EXCEPT !.lastFailureTime = t]
    IN IF b1.circuitState = "half-open"
       THEN [b1 EXCEPT !.circuitState = "open"]
       ELSE IF b1.circuitState = "closed"
            THEN LET b2 == [b1 EXCEPT !.failureCount = b1.failureCount + 1]
                 IN IF b2.failureCount > circuitBreakerOptions.failureThreshold
                    THEN [b2 EXCEPT !.circuitState = "open"]
                    ELSE b2
            ELSE b1

\* variant: a failure in 'half-open' only records its time
registerFailureNoTrip(b, t) ==
  IF ~circuitBreakerOptions.enabled THEN b
  ELSE
    LET b1 == [b EXCEPT !.lastFailureTime = t]
    IN IF b1.circuitState = "closed"
       THEN LET b2 == [b1 EXCEPT !.failureCount = b1.failureCount + 1]
            IN IF b2.failureCount >= circuitBreakerOptions.failureThreshold
               THEN [b2 EXCEPT !.circuitState = "open"]
               ELSE b2
       ELSE b1

\* variant: the enabled flag is not consulted
registerFailureAlways(b, t) ==
  LET b1 == [b EXCEPT !.lastFailureTime = t]
  IN IF b1.circuitState = "half-open"
     THEN [b1 EXCEPT !.circuitState = "open"]
     ELSE IF b1.circuitState = "closed"
          THEN LET b2 == [b1 EXCEPT !.failureCount = b1.failureCount + 1]
               IN IF b2.failureCount >= circuitBreakerOptions.failureThreshold
                  THEN [b2 EXCEPT !.circuitState = "open"]
                  ELSE b2
          ELSE b1

\* variant: a lost update: the count written is one more than a value read
\* before the previous failure was recorded, so a second failure leaves it
\* as it is
registerFailureLostUpdate(b, t) ==
  IF ~circuitBreakerOptions.enabled THEN b
  ELSE
    LET b1 == [b EXCEPT !.lastFailureTime = t]
    IN IF b1.circuitState = "half-open"
       THEN [b1 EXCEPT !.circuitState = "open"]
       ELSE IF b1.circuitState = "closed"
            THEN LET b2 == [b1 EXCEPT !.failureCount = IF b1.failureCount > 0
                                                       THEN b1.failureCount
                                                       ELSE 1]
                 IN IF b2.failureCount >= circuitBreakerOptions.failureThreshold
                    THEN [b2 EXCEPT !.circuitState = "open"]
                    ELSE b2
            ELSE b1

\* registerFailure()
registerFailure(b, t) ==
  IF ~circuitBreakerOptions.enabled THEN b
  ELSE
    LET b1 == [b EXCEPT !.lastFailureTime = t]
    IN IF b1.circuitState = "half-open"
       THEN [b1 EXCEPT !.circuitState = "open"]
       ELSE IF b1.circuitState = "closed"
            THEN LET b2 == [b1 EXCEPT !.failureCount = b1.failureCount + 1]
                 IN IF b2.failureCount >= circuitBreakerOptions.failureThreshold
                    THEN [b2 EXCEPT !.circuitState = "open"]
                    ELSE b2
            ELSE b1

\* the half-open increment of request(), lines 276-284
admitIncrement(b) ==
  IF circuitBreakerOptions.enabled /\ b.circuitState = "half-open"
  THEN [b EXCEPT !.halfOpenRequests = b.halfOpenRequests + 1]
  ELSE b

\* ------------------------------------------------------------- retry policy
\* variant: every status from 400 up is retryable
isRetryableFrom400(statusCode) == statusCode >= 400 /\ statusCode <= 599

\* isRetryable()
isRetryable(statusCode) == statusCode = 429 \/ (statusCode >= 500 /\ statusCode <= 599)

\* variant: the delay is clamped from above only
calculateRetryDelayUpperOnly(a, rnd) ==
  LET base == Rat(retryOptions.minTimeout * Pow(retryOptions.factor, a - 1), Pow(10, a - 1))
      delay == IF retryOptions.randomize
               THEN Rat(base.n * (50 + rnd), base.d * 100)
               ELSE base
  IN RatMin(delay, Rat(retryOptions.maxTimeout, 1))

\* variant: the exponent is attempt instead of attempt - 1
calculateRetryDelayNextPower(a, rnd) ==
  LET base == Rat(retryOptions.minTimeout * Pow(retryOptions.factor, a), Pow(10, a))
      delay == IF retryOptions.randomize
               THEN Rat(base.n * (50 + rnd), base.d * 100)
               ELSE base
  IN RatMax(Rat(retryOptions.minTimeout, 1), RatMin(delay, Rat(retryOptions.maxTimeout, 1)))

\* calculateRetryDelay(attempt); factor is held in tenths, rnd is the value
\* of Math.random() in hundredths
calculateRetryDelay(a, rnd) ==
  LET base == Rat(retryOptions.minTimeout * Pow(retryOptions.factor, a - 1), Pow(10, a - 1))
      delay == IF retryOptions.randomize
               THEN Rat(base.n * (50 + rnd), base.d * 100)
               ELSE base
  IN RatMax(Rat(retryOptions.minTimeout, 1), RatMin(delay, Rat(retryOptions.maxTimeout, 1)))

\* setTimeout(resolve, delay): the delay is truncated, and is 1 when below 1
TimerTicks(delay) == IF RatFloor(delay) < 1 THEN 1 ELSE RatFloor(delay)

RandomDraws == {0, 50, 99}


\* --------------------------------------------------------------- responses
\* what fetch() resolves with: the status, and whether content-length is '0'
Responses ==
  { [status |-> 200, empty |-> FALSE], [status |-> 200, empty |-> TRUE],
    [status |-> 204, empty |-> TRUE],  [status |-> 404, empty |-> FALSE],
    [status |-> 429, empty |-> FALSE], [status |-> 503, empty |-> FALSE] }
\* response.ok
ResponseOk(r) == r.status >= 200 /\ r.status <= 299
\* what fetch() rejects with
FetchErrors == {NetworkError, TimeoutError}

\* the record of a request() call that has just been invoked
Idle ==
  [pc |-> "idle", attempt |-> 0, lastError |-> NoError, respStatus |-> 0,
   wakeAt |-> 0, trial |-> FALSE, hoPass |-> FALSE, authCount |-> 0,
   fetchCount |-> 0, waitCount |-> 0, all503 |-> TRUE,
   checks |-> 0, regFails |-> 0, regSuccs |-> 0, signal |-> "none",
   abortedAt |-> "none"]

\* no calculateRetryDelay() evaluated on its own yet
NoDelay == [attempt |-> 0, rnd |-> 0, value |-> Rat(0, 1)]

\* no healthCheck() or checkHealth() call made yet; auths and fetches count
\* the authenticate() and fetch() calls made for the path being probed
NoHealth ==
  [pc |-> "idle", method |-> "none", path |-> "none", auths |-> 0, fetches |-> 0,
   outcome |-> "none", result |-> "none"]

\* the `null` of getCircuitBreakerStats().lastFailureTime; a timestamp t is <<t>>
Null == <<>>

\* the step just taken was no getCircuitBreakerStats() call
NoStats == [enabled |-> FALSE, state |-> "none", failureCount |-> 0, lastFailureTime |-> Null]

\* ------------------------------------------------------------ construction
\* every option takes its smallest value or the largest one the bounds allow
RetryConfigs ==
  [retries : {0, MaxRetries}, factor : {20}, minTimeout : {1, MaxMinTimeout},
   maxTimeout : {MaxMinTimeout + 1}, randomize : {FALSE}]
\* a disabled breaker never reads its other options: one such configuration
CircuitBreakerConfigs ==
  [enabled : {TRUE}, failureThreshold : {1, MaxFailureThreshold},
   resetTimeoutMs : {MaxResetTimeout}, halfOpenRequestThreshold : {MaxHalfOpen}]
  \cup [enabled : {FALSE}, failureThreshold : {1}, resetTimeoutMs : {1},
         halfOpenRequestThreshold : {1}]

Init ==
  /\ retryOptions \in RetryConfigs
  /\ circuitBreakerOptions \in CircuitBreakerConfigs
  /\ cb = [circuitState |-> "closed", failureCount |-> 0,
           lastFailureTime |-> 0, halfOpenRequests |-> 0]
  /\ now = 1
  /\ calls = EmptyBag
  /\ last = [action |-> "Init", ops |-> <<>>, before |-> cb, self |-> Idle]
  /\ failuresSinceSuccess = 0
  /\ retryDelay = NoDelay
  /\ health = NoHealth
  /\ stats = NoStats

\* ------------------------------------------------------- history bookkeeping
RECURSIVE CountAfter(_, _)
CountAfter(n, ops) ==
  IF ops = <<>> THEN n
  ELSE CountAfter(IF Head(ops) = "registerFailure"
                  THEN (IF n > circuitBreakerOptions.failureThreshold THEN n ELSE n + 1)
                  ELSE IF Head(ops) = "registerSuccess" THEN 0 ELSE n,
                  Tail(ops))

\* the passes of the current half-open phase are forgotten when it ends
Phase(b, r) == IF b.circuitState = "half-open" THEN r ELSE [r EXCEPT !.hoPass = FALSE]
PhaseAll(b, B) ==
  IF b.circuitState = "half-open" THEN B
  ELSE [q \in {Phase(b, r) : r \in BagToSet(B)} |->
          CopiesIn(q, B) + CopiesIn([q EXCEPT !.hoPass = TRUE], B)]

\* a step of the call with record c: it performed the breaker operations
\* ops, left the breaker fields b and its own record r
Step(c, action, ops, b, r) ==
  /\ cb' = b
  /\ calls' = PhaseAll(b, (calls (-) SetToBag({c})) (+) SetToBag({r}))
  /\ last' = [action |-> action, ops |-> ops, before |-> cb, self |-> r]
  /\ failuresSinceSuccess' = CountAfter(failuresSinceSuccess, ops)
  /\ stats' = NoStats
  /\ UNCHANGED <<retryOptions, circuitBreakerOptions, now, retryDelay, health>>

\* a step that ends the call with record c: r is its final record (pc
\* "returned" or "thrown")
End(c, action, ops, b, r) ==
  /\ cb' = b
  /\ calls' = PhaseAll(b, calls (-) SetToBag({c}))
  /\ last' = [action |-> action, ops |-> ops, before |-> cb, self |-> r]
  /\ failuresSinceSuccess' = CountAfter(failuresSinceSuccess, ops)
  /\ stats' = NoStats
  /\ UNCHANGED <<retryOptions, circuitBreakerOptions, now, retryDelay, health>>

\* a step that begins a call
Begin(action, ops, b, r) ==
  /\ cb' = b
  /\ calls' = PhaseAll(b, calls (+) SetToBag({r}))
  /\ last' = [action |-> action, ops |-> ops, before |-> cb, self |-> r]
  /\ failuresSinceSuccess' = CountAfter(failuresSinceSuccess, ops)
  /\ stats' = NoStats
  /\ UNCHANGED <<retryOptions, circuitBreakerOptions, now, retryDelay, health>>

\* a call rejected at its start
Reject(action, ops, b, r) ==
  /\ cb' = b
  /\ calls' = PhaseAll(b, calls)
  /\ last' = [action |-> action, ops |-> ops, before |-> cb, self |-> r]
  /\ failuresSinceSuccess' = CountAfter(failuresSinceSuccess, ops)
  /\ stats' = NoStats
  /\ UNCHANGED <<retryOptions, circuitBreakerOptions, now, retryDelay, health>>

\* ------------------------------------------------------------ request()
\* variant: the captured error is thrown wrapped in an ExternalServiceError
FinalOutcomeWrapped(c, action, b, r, err, ops) ==
  IF err # NoError
  THEN End(c, action, ops \o <<"registerFailure">>, registerFailure(b, now),
           [r EXCEPT !.pc = "thrown", !.regFails = r.regFails + 1,
                     !.lastError = [err EXCEPT !.name = "ExternalServiceError",
                                               !.cause = err.name]])
  ELSE End(c, action, ops, b, [r EXCEPT !.pc = "thrown", !.lastError = UnexpectedError])

\* variant: the captured error is registered and logged, and the call returns
\* undefined instead of throwing
FinalOutcomeSwallowed(c, action, b, r, err, ops) ==
  IF err # NoError
  THEN End(c, action, ops \o <<"registerFailure">>, registerFailure(b, now),
           [r EXCEPT !.pc = "returned", !.lastError = err,
                     !.regFails = r.regFails + 1])
  ELSE End(c, action, ops, b, [r EXCEPT !.pc = "thrown", !.lastError = UnexpectedError])

\* lines 472-506: the final outcome once the loop is left with error err
FinalOutcome(c, action, b, r, err, ops) ==
  IF err # NoError
  THEN End(c, action, ops \o <<"registerFailure">>, registerFailure(b, now),
           [r EXCEPT !.pc = "thrown", !.lastError = err,
                     !.regFails = r.regFails + 1])
  ELSE End(c, action, ops, b, [r EXCEPT !.pc = "thrown", !.lastError = UnexpectedError])

\* variant: the loop test is attempt < retries
NextAttemptStrict(c, action, b, r, ops) ==
  IF r.attempt < retryOptions.retries
  THEN Step(c, action, ops, b,
            [r EXCEPT !.attempt = r.attempt + 1, !.fetchCount = r.fetchCount + 1,
                      !.pc = "fetching"])
  ELSE FinalOutcome(c, action, b, r, r.lastError, ops)

\* lines 305-330: the loop test, attempt++ and the fetch() of the next attempt
NextAttempt(c, action, b, r, ops) ==
  IF r.attempt <= retryOptions.retries
  THEN Step(c, action, ops, b,
            [r EXCEPT !.attempt = r.attempt + 1, !.fetchCount = r.fetchCount + 1,
                      !.pc = "fetching"])
  ELSE FinalOutcome(c, action, b, r, r.lastError, ops)

\* lines 449-457: registerFailure, calculateRetryDelay and the backoff timer
RetryLogic(c, action, r, err) ==
  \E rnd \in (IF retryOptions.randomize THEN RandomDraws ELSE {0}) :
    Step(c, action, <<"registerFailure">>, registerFailure(cb, now),
         [r EXCEPT !.lastError = err,
                   !.wakeAt = now + TimerTicks(calculateRetryDelay(r.attempt, rnd)),
                   !.waitCount = r.waitCount + 1,
                   !.regFails = r.regFails + 1,
                   !.pc = "waiting"])

\* lines 233-288: request() up to the await of authenticate(); sig is the
\* state of options.signal: "none" (no signal given), "live" or "aborted"
Invoke(sig) ==
  /\ BagCardinality(calls) < NumCalls
  /\ LET chk == checkCircuitBreaker(cb, now)
         new == [Idle EXCEPT !.signal = sig,
                             !.abortedAt = IF sig = "aborted" THEN "idle" ELSE "none"]
     IN IF chk.threw
        THEN Reject("Start", <<"check.throw">>, chk.cb,
                    [new EXCEPT !.pc = "thrown", !.lastError = chk.error,
                                !.checks = 1])
        ELSE Begin("Start", <<"check.pass">>, admitIncrement(chk.cb),
                   [new EXCEPT !.pc = "authenticating",
                               !.authCount = 1,
                               !.checks = 1,
                               !.trial = (admitIncrement(chk.cb) # chk.cb),
                               !.hoPass = TRUE])

\* request() called without options.signal
Start == Invoke("none")

\* request() called with an options.signal, not yet aborted or already aborted
StartWithSignal == \E sig \in {"live", "aborted"} : Invoke(sig)

\* variant: an authentication failure is registered with the breaker
AuthDoneRegisters(c) ==
  /\ c.pc = "authenticating"
  /\ \E ok \in BOOLEAN :
       IF ok
       THEN NextAttempt(c, "AuthDone", cb, c, <<>>)
       ELSE End(c, "AuthDone", <<"registerFailure">>, registerFailure(cb, now),
                [c EXCEPT !.pc = "thrown", !.lastError = AuthError,
                          !.regFails = c.regFails + 1])

\* lines 288-330: authenticate() settled
AuthDone(c) ==
  /\ c.pc = "authenticating"
  /\ \E ok \in BOOLEAN :
       IF ok
       THEN NextAttempt(c, "AuthDone", cb, c, <<>>)
       ELSE End(c, "AuthDone", <<>>, cb,
                [c EXCEPT !.pc = "thrown", !.lastError = AuthError])

\* lines 330-381: the code that follows a fetch() resolved with resp
Respond(c, resp) ==
  LET r == [c EXCEPT !.all503 = (c.all503 /\ resp.status = 503)] IN
  IF ResponseOk(resp)
  THEN IF resp.status = 204 \/ resp.empty
       THEN End(c, "FetchResolve", <<"registerSuccess">>, registerSuccess(cb),
                [r EXCEPT !.pc = "returned", !.regSuccs = r.regSuccs + 1])
       ELSE Step(c, "FetchResolve", <<"registerSuccess">>, registerSuccess(cb),
                 [r EXCEPT !.pc = "readingJson", !.regSuccs = r.regSuccs + 1])
  ELSE Step(c, "FetchResolve", <<>>, cb,
            [r EXCEPT !.pc = "readingText", !.respStatus = resp.status])

\* lines 330-381: fetch() resolved with a response
FetchResolve(c) ==
  /\ c.pc = "fetching"
  /\ \E resp \in Responses : Respond(c, resp)

\* lines 410-447: fetch() rejected
FetchReject(c) ==
  /\ c.pc = "fetching"
  /\ \E error \in FetchErrors :
       LET r == [c EXCEPT !.all503 = FALSE] IN
       IF \/ (error.name = "AbortError" /\ r.attempt <= retryOptions.retries)
          \/ (error.name = "RetryableError" /\ r.attempt <= retryOptions.retries)
       THEN RetryLogic(c, "FetchReject", r, error)
       ELSE FinalOutcome(c, "FetchReject", cb, r, error, <<>>)

\* lines 315-317 and 410-447: the 'abort' listener of the attempt in flight
\* aborted its controller, and fetch() rejected with the abort reason
FetchAborted(c) ==
  /\ c.pc = "aborting"
  /\ LET error == ExternalAbortError
         r == [c EXCEPT !.all503 = FALSE]
     IN IF \/ (error.name = "AbortError" /\ r.attempt <= retryOptions.retries)
           \/ (error.name = "RetryableError" /\ r.attempt <= retryOptions.retries)
        THEN RetryLogic(c, "FetchAborted", r, error)
        ELSE FinalOutcome(c, "FetchAborted", cb, r, error, <<>>)

\* the caller aborts the signal it passed to the call: the 'abort' event
\* reaches onExternalAbort only while an attempt's fetch() is pending (the
\* listener is added at line 317 and removed at lines 332 and 412)
Abort(c) ==
  /\ c.signal = "live"
  /\ Step(c, "Abort", <<>>, cb,
          [c EXCEPT !.signal = "aborted",
                    !.abortedAt = c.pc,
                    !.pc = IF c.pc = "fetching" THEN "aborting" ELSE c.pc])

\* lines 360-377: response.json() settled
JsonDone(c) ==
  /\ c.pc = "readingJson"
  /\ \E parsed \in BOOLEAN :
       IF parsed
       THEN End(c, "JsonDone", <<>>, cb, [c EXCEPT !.pc = "returned"])
       ELSE FinalOutcome(c, "JsonDone", cb, c, ParseError, <<>>)

\* variant: a retryable status goes to the backoff wait on the last attempt
\* as well
TextDoneAlwaysWaits(c) ==
  /\ c.pc = "readingText"
  /\ LET error == IF isRetryable(c.respStatus)
                  THEN RetryableError(c.respStatus)
                  ELSE ExternalServiceError(c.respStatus)
         r == [c EXCEPT !.respStatus = 0]
     IN IF error.name # "RetryableError"
        THEN FinalOutcome(c, "TextDone", cb, r, error, <<>>)
        ELSE RetryLogic(c, "TextDone", r, error)

\* lines 381-407 and 449-457: response.text() resolved
TextDone(c) ==
  /\ c.pc = "readingText"
  /\ LET error == IF isRetryable(c.respStatus)
                  THEN RetryableError(c.respStatus)
                  ELSE ExternalServiceError(c.respStatus)
         r == [c EXCEPT !.respStatus = 0]
     IN IF error.name # "RetryableError" \/ r.attempt > retryOptions.retries
        THEN FinalOutcome(c, "TextDone", cb, r, error, <<>>)
        ELSE RetryLogic(c, "TextDone", r, error)

\* variant: the next attempt follows the backoff wait without a breaker check
TimerFiredNoCheck(c) ==
  /\ c.pc = "waiting"
  /\ now >= c.wakeAt
  /\ NextAttempt(c, "TimerFired", cb, [c EXCEPT !.wakeAt = 0, !.hoPass = TRUE], <<>>)

\* lines 457-470 and 305-330: the backoff timer fired
TimerFired(c) ==
  /\ c.pc = "waiting"
  /\ now >= c.wakeAt
  /\ LET chk == checkCircuitBreaker(cb, now)
         r == [c EXCEPT !.wakeAt = 0, !.checks = c.checks + 1]
     IN IF chk.threw
        THEN FinalOutcome(c, "TimerFired", chk.cb, r, chk.error, <<"check.throw">>)
        ELSE NextAttempt(c, "TimerFired", chk.cb, [r EXCEPT !.hoPass = TRUE],
                         <<"check.pass">>)

\* the clock advances; a timer that is due fires before the clock moves on
Tick ==
  /\ now < MaxTime
  /\ \A c \in BagToSet(calls) : c.pc = "waiting" => now < c.wakeAt
  /\ now' = now + 1
  /\ last' = [action |-> "Tick", ops |-> <<>>, before |-> cb, self |-> Idle]
  /\ stats' = NoStats
  /\ UNCHANGED <<retryOptions, circuitBreakerOptions, cb, calls, failuresSinceSuccess,
                 retryDelay, health>>

Next ==
  \/ Start
  \/ \E c \in BagToSet(calls) : AuthDone(c)
  \/ \E c \in BagToSet(calls) : FetchResolve(c)
  \/ \E c \in BagToSet(calls) : FetchReject(c)
  \/ \E c \in BagToSet(calls) : JsonDone(c)
  \/ \E c \in BagToSet(calls) : TextDone(c)
  \/ \E c \in BagToSet(calls) : TimerFired(c)
  \/ Tick

Spec == Init /\ [][Next]_vars

\* the calls are given a cancellation signal by their callers
SignalNext ==
  \/ StartWithSignal
  \/ \E c \in BagToSet(calls) : AuthDone(c)
  \/ \E c \in BagToSet(calls) : FetchResolve(c)
  \/ \E c \in BagToSet(calls) : FetchReject(c)
  \/ \E c \in BagToSet(calls) : FetchAborted(c)
  \/ \E c \in BagToSet(calls) : JsonDone(c)
  \/ \E c \in BagToSet(calls) : TextDone(c)
  \/ \E c \in BagToSet(calls) : TimerFired(c)
  \/ \E c \in BagToSet(calls) : Abort(c)
  \/ Tick

SpecSignal == Init /\ [][SignalNext]_vars

\* ------------------------------------------- healthCheck() and checkHealth()
\* a step of the health check in progress: it leaves the record h
HealthStep(action, h) ==
  /\ health' = h
  /\ last' = [action |-> action, ops |-> <<>>, before |-> cb, self |-> Idle]
  /\ stats' = NoStats
  /\ UNCHANGED <<retryOptions, circuitBreakerOptions, cb, now, calls,
                 failuresSinceSuccess, retryDelay>>

\* lines 605-618: healthCheck(path) up to the await of authenticate()
Probe(method, path) ==
  [pc |-> "authenticating", method |-> method, path |-> path, auths |-> 1,
   fetches |-> 0, outcome |-> "none", result |-> "none"]

\* lines 619-643 and 985-1007: healthCheck() returned false for the path
\* probed; checkHealth() then probes its fallback path
ProbeFailed(action, outcome) ==
  IF health.method = "checkHealth" /\ health.path = "primary"
  THEN HealthStep(action, Probe("checkHealth", "fallback"))
  ELSE HealthStep(action, [health EXCEPT !.pc = "done", !.outcome = outcome,
                                         !.result = "false"])

\* variant: the health check consults the breaker first and is rejected
\* while the breaker rejects calls
HealthStartChecked ==
  /\ health.pc \in {"idle", "done"}
  /\ \E method \in {"healthCheck", "checkHealth"} :
       IF checkCircuitBreaker(cb, now).threw
       THEN HealthStep("HealthStart", [NoHealth EXCEPT !.pc = "done", !.method = method,
                                                       !.path = "primary",
                                                       !.outcome = "rejected",
                                                       !.result = "false"])
       ELSE HealthStep("HealthStart", Probe(method, "primary"))

\* lines 605-618 and 977-985: healthCheck() or checkHealth() is called
HealthStart ==
  /\ health.pc \in {"idle", "done"}
  /\ \E method \in {"healthCheck", "checkHealth"} :
       HealthStep("HealthStart", Probe(method, "primary"))

\* lines 618-632: authenticate() settled
HealthAuthDone ==
  /\ health.pc = "authenticating"
  /\ \E ok \in BOOLEAN :
       IF ok
       THEN HealthStep("HealthAuthDone", [health EXCEPT !.pc = "fetching",
                                                        !.fetches = health.fetches + 1])
       ELSE ProbeFailed("HealthAuthDone", "auth")

\* lines 629-643: fetch() settled: a 2xx response, another response, a
\* network error or the abort of the health check's own timer
HealthFetchDone ==
  /\ health.pc = "fetching"
  /\ \E outcome \in {"2xx", "non-2xx", "error", "timeout"} :
       IF outcome = "2xx"
       THEN HealthStep("HealthFetchDone", [health EXCEPT !.pc = "done",
                                                         !.outcome = outcome,
                                                         !.result = "true"])
       ELSE ProbeFailed("HealthFetchDone", outcome)

\* health checks run beside request() calls; these make no retry (see
\* InitHealth), so no backoff timer runs
HealthNext ==
  \/ Start
  \/ \E c \in BagToSet(calls) : AuthDone(c)
  \/ \E c \in BagToSet(calls) : FetchResolve(c)
  \/ \E c \in BagToSet(calls) : FetchReject(c)
  \/ \E c \in BagToSet(calls) : JsonDone(c)
  \/ \E c \in BagToSet(calls) : TextDone(c)
  \/ Tick
  \/ HealthStart
  \/ HealthAuthDone
  \/ HealthFetchDone

\* a health check reads no retry option: the calls beside it are made with
\* retries = 0
InitHealth ==
  /\ Init
  /\ retryOptions.retries = 0
  /\ retryOptions.minTimeout = 1

SpecHealth == InitHealth /\ [][HealthNext]_vars

\* ------------------------------------------------- calls that must finish
\* the calls whose end is awaited are made one after another, and finitely
\* many of them: none starts once the clock has reached MaxTime
LiveStart == calls = EmptyBag /\ now < MaxTime /\ Start

\* the clock advances as long as a call may still start or a backoff timer
\* is pending; a timer that is due fires before the clock moves on
LiveTick ==
  /\ now < MaxTime \/ \E c \in BagToSet(calls) : c.pc = "waiting"
  /\ \A c \in BagToSet(calls) : c.pc = "waiting" => now < c.wakeAt
  /\ now' = now + 1
  /\ last' = [action |-> "Tick", ops |-> <<>>, before |-> cb, self |-> Idle]
  /\ stats' = NoStats
  /\ UNCHANGED <<retryOptions, circuitBreakerOptions, cb, calls, failuresSinceSuccess,
                 retryDelay, health>>

\* the promises a call awaits settle: authenticate(), fetch() (it answers or
\* is aborted by the attempt's timeout timer), the body reads and the
\* backoff timer
AuthSettles == \E c \in BagToSet(calls) : AuthDone(c)
FetchSettles == \E c \in BagToSet(calls) : FetchResolve(c) \/ FetchReject(c)
JsonSettles == \E c \in BagToSet(calls) : JsonDone(c)
TextSettles == \E c \in BagToSet(calls) : TextDone(c)
TimerFires == \E c \in BagToSet(calls) : TimerFired(c)

LiveNext ==
  \/ LiveStart
  \/ AuthSettles
  \/ FetchSettles
  \/ JsonSettles
  \/ TextSettles
  \/ TimerFires
  \/ LiveTick

\* the event loop runs every callback that is ready, and time passes
SpecLive ==
  /\ Init
  /\ [][LiveNext]_vars
  /\ WF_vars(AuthSettles)
  /\ WF_vars(FetchSettles)
  /\ WF_vars(JsonSettles)
  /\ WF_vars(TextSettles)
  /\ WF_vars(TimerFires)
  /\ WF_vars(LiveTick)

\* ------------------------------------------------ getCircuitBreakerStats()
\* getCircuitBreakerStats(): the object returned when the breaker fields are b
getCircuitBreakerStats(b) ==
  [enabled |-> circuitBreakerOptions.enabled,
   state |-> b.circuitState,
   failureCount |-> b.failureCount,
   lastFailureTime |-> IF b.lastFailureTime > 0 THEN <<b.lastFailureTime>> ELSE Null]

\* variant: the stats are read after the breaker has been brought up to date
\* the way checkCircuitBreaker() does it, 'open' becoming 'half-open' once
\* the reset timeout has passed
GetStatsRefreshing ==
  /\ cb' = checkCircuitBreaker(cb, now).cb
  /\ stats' = getCircuitBreakerStats(cb')
  /\ last' = [action |-> "GetStats", ops |-> <<>>, before |-> cb, self |-> Idle]
  /\ UNCHANGED <<retryOptions, circuitBreakerOptions, now, calls,
                 failuresSinceSuccess, retryDelay, health>>

\* lines 652-664: a caller reads the stats
GetStats ==
  /\ stats' = getCircuitBreakerStats(cb)
  /\ last' = [action |-> "GetStats", ops |-> <<>>, before |-> cb, self |-> Idle]
  /\ UNCHANGED <<retryOptions, circuitBreakerOptions, cb, now, calls,
                 failuresSinceSuccess, retryDelay, health>>

\* the stats are read beside request() calls; these make no retry (see
\* InitStats), so no backoff timer runs
StatsNext ==
  \/ Start
  \/ \E c \in BagToSet(calls) : AuthDone(c)
  \/ \E c \in BagToSet(calls) : FetchResolve(c)
  \/ \E c \in BagToSet(calls) : FetchReject(c)
  \/ \E c \in BagToSet(calls) : JsonDone(c)
  \/ \E c \in BagToSet(calls) : TextDone(c)
  \/ Tick
  \/ GetStats

\* getCircuitBreakerStats() reads no retry option: the calls beside it are
\* made with retries = 0
InitStats ==
  /\ Init
  /\ retryOptions.retries = 0
  /\ retryOptions.minTimeout = 1

SpecStats == InitStats /\ [][StatsNext]_vars

\* ------------------------------------- the scenario of three 429 responses
\* times in milliseconds: retries 2, minTimeout 100, factor 2, no jitter, the
\* breaker disabled; maxTimeout is not given by the scenario (default 10000)
InitScenario ==
  /\ retryOptions \in [retries : {2}, factor : {20}, minTimeout : {100},
                        maxTimeout : {100, 200, 10000}, randomize : {FALSE}]
  /\ circuitBreakerOptions = [enabled |-> FALSE, failureThreshold |-> 5,
                              resetTimeoutMs |-> 30000, halfOpenRequestThreshold |-> 1]
  /\ cb = [circuitState |-> "closed", failureCount |-> 0,
           lastFailureTime |-> 0, halfOpenRequests |-> 0]
  /\ now = 0
  /\ calls = EmptyBag
  /\ last = [action |-> "Init", ops |-> <<>>, before |-> cb, self |-> Idle]
  /\ failuresSinceSuccess = 0
  /\ retryDelay = NoDelay
  /\ health = NoHealth
  /\ stats = NoStats

\* the calls of the scenario begin at time 0
ScenarioStart == now = 0 /\ Start

\* the dependency answers 429 to every fetch()
Answer429(c) ==
  /\ c.pc = "fetching"
  /\ Respond(c, [status |-> 429, empty |-> FALSE])

\* the dependency answers at once: time passes only while every call in
\* progress waits for its backoff timer, and runs to the first timer due
ScenarioTick ==
  /\ calls # EmptyBag
  /\ \A c \in BagToSet(calls) : c.pc = "waiting" /\ now < c.wakeAt
  /\ \E c \in BagToSet(calls) :
       /\ \A d \in BagToSet(calls) : c.wakeAt <= d.wakeAt
       /\ now' = c.wakeAt
  /\ last' = [action |-> "Tick", ops |-> <<>>, before |-> cb, self |-> Idle]
  /\ stats' = NoStats
  /\ UNCHANGED <<retryOptions, circuitBreakerOptions, cb, calls, failuresSinceSuccess,
                 retryDelay, health>>

ScenarioNext ==
  \/ ScenarioStart
  \/ \E c \in BagToSet(calls) : AuthDone(c)
  \/ \E c \in BagToSet(calls) : Answer429(c)
  \/ \E c \in BagToSet(calls) : TextDone(c)
  \/ \E c \in BagToSet(calls) : TimerFired(c)
  \/ ScenarioTick

SpecScenario == InitScenario /\ [][ScenarioNext]_vars

\* ------------------------------------------- calculateRetryDelay() on its own
\* the retry options the constructor accepts: it checks none of them, so
\* minTimeout may exceed maxTimeout
DelayConfigs ==
  [retries : {MaxRetries}, factor : {10, 15, 20}, minTimeout : 1..(MaxMinTimeout + 1),
   maxTimeout : 1..(MaxMinTimeout + 1), randomize : BOOLEAN]

InitDelay ==
  /\ retryOptions \in DelayConfigs
  /\ circuitBreakerOptions \in CircuitBreakerConfigs
  /\ cb = [circuitState |-> "closed", failureCount |-> 0,
           lastFailureTime |-> 0, halfOpenRequests |-> 0]
  /\ now = 1
  /\ calls = EmptyBag
  /\ last = [action |-> "Init", ops |-> <<>>, before |-> cb, self |-> Idle]
  /\ failuresSinceSuccess = 0
  /\ retryDelay = NoDelay
  /\ health = NoHealth
  /\ stats = NoStats

\* calculateRetryDelay(a) is evaluated with Math.random() returning rnd
ComputeDelay ==
  /\ \E a \in 1..MaxAttempt :
       \E rnd \in (IF retryOptions.randomize THEN RandomDraws ELSE {0}) :
         retryDelay' = [attempt |-> a, rnd |-> rnd, value |-> calculateRetryDelay(a, rnd)]
  /\ UNCHANGED <<retryOptions, circuitBreakerOptions, cb, now, calls, last,
                 failuresSinceSuccess, health, stats>>

SpecDelay == InitDelay /\ [][ComputeDelay]_vars

\* ------------------------------------------------------------- properties
Applied(op) == \E i \in DOMAIN last.ops : last.ops[i] = op
RegisteredFailure == Applied("registerFailure")
RegisteredSuccess == Applied("registerSuccess")
CheckPassed == Applied("check.pass")
CheckThrew == Applied("check.throw")
\* elapsed time since lastFailureTime when the step just taken began
ElapsedBefore == now - last.before.lastFailureTime
\* the calls in progress and the call that took the last step
Observed == BagToSet(calls) \cup {last.self}

\* C1: with the breaker enabled and failureThreshold = k, a registerFailure()
\* applied while 'closed' leaves the circuit 'closed' when it is one of the
\* first k-1 consecutive failures, and 'open' when it is the k-th
C1_OpensAtThreshold ==
  (circuitBreakerOptions.enabled /\ RegisteredFailure
     /\ last.before.circuitState = "closed")
  => IF failuresSinceSuccess < circuitBreakerOptions.failureThreshold
     THEN cb.circuitState = "closed"
     ELSE /\ failuresSinceSuccess = circuitBreakerOptions.failureThreshold
          /\ cb.circuitState = "open"

\* C1 witness: the second of two consecutive failures opened a breaker whose
\* threshold is 2
C1_Witness ==
  /\ circuitBreakerOptions.enabled
  /\ circuitBreakerOptions.failureThreshold = 2
  /\ RegisteredFailure
  /\ last.before.circuitState = "closed"
  /\ last.before.failureCount = 1
  /\ failuresSinceSuccess = 2
  /\ cb.circuitState = "open"

\* C2: while 'closed', registerSuccess() sets failureCount to 0, and the
\* circuit goes from 'closed' to 'open' only on the failureThreshold-th
\* registerFailure() since the last registerSuccess()
C2_SuccessResetsCount ==
  /\ (circuitBreakerOptions.enabled /\ RegisteredSuccess
        /\ last.before.circuitState = "closed")
     => (cb.circuitState = "closed" /\ cb.failureCount = 0)
  /\ (circuitBreakerOptions.enabled /\ last.before.circuitState = "closed"
        /\ cb.circuitState = "open")
     => failuresSinceSuccess = circuitBreakerOptions.failureThreshold

\* C2 witness: a success arrived in 'closed' after one failure, below the
\* threshold 2, and cleared the count
C2_Witness ==
  /\ circuitBreakerOptions.enabled
  /\ circuitBreakerOptions.failureThreshold = 2
  /\ RegisteredSuccess
  /\ last.before.circuitState = "closed"
  /\ last.before.failureCount = 1
  /\ cb.failureCount = 0

\* C3 as stated: while 'open', a check at elapsed time t < resetTimeoutMs
\* throws, and a check at any t >= resetTimeoutMs moves to 'half-open' and
\* admits
C3_Original ==
  (circuitBreakerOptions.enabled /\ (CheckPassed \/ CheckThrew)
     /\ last.before.circuitState = "open")
  => IF ElapsedBefore < circuitBreakerOptions.resetTimeoutMs
     THEN CheckThrew /\ cb.circuitState = "open"
     ELSE CheckPassed /\ cb.circuitState = "half-open"

\* C3 amended: while 'open', a check at elapsed time t <= resetTimeoutMs
\* throws the circuit-open error and leaves the circuit 'open'; a check at
\* t > resetTimeoutMs moves to 'half-open' and admits
C3_ResetTimeout ==
  (circuitBreakerOptions.enabled /\ (CheckPassed \/ CheckThrew)
     /\ last.before.circuitState = "open")
  => IF ElapsedBefore <= circuitBreakerOptions.resetTimeoutMs
     THEN /\ CheckThrew
          /\ cb.circuitState = "open"
          /\ last.self.pc = "thrown"
          /\ last.self.lastError = CircuitOpenError
     ELSE /\ CheckPassed
          /\ cb.circuitState = "half-open"
          /\ last.self.pc = IF last.action = "Start" THEN "authenticating"
                            ELSE "fetching"

\* C3 witness: a call that started exactly resetTimeoutMs after the last
\* failure was rejected
C3_Witness ==
  /\ circuitBreakerOptions.enabled
  /\ last.action = "Start"
  /\ CheckThrew
  /\ last.before.circuitState = "open"
  /\ ElapsedBefore = circuitBreakerOptions.resetTimeoutMs
  /\ cb.circuitState = "open"

\* C4: a registerFailure() applied while 'half-open' leaves the circuit
\* 'open', whatever failureThreshold and failureCount are
C4_HalfOpenFailureReopens ==
  (circuitBreakerOptions.enabled /\ RegisteredFailure
     /\ last.before.circuitState = "half-open")
  => cb.circuitState = "open"

\* C4 witness: one failure re-opened a half-open breaker whose threshold is 2
C4_Witness ==
  /\ circuitBreakerOptions.enabled
  /\ circuitBreakerOptions.failureThreshold = 2
  /\ RegisteredFailure
  /\ last.before.circuitState = "half-open"
  /\ cb.circuitState = "open"

\* calls that passed a breaker check in the current half-open phase and have
\* a transport attempt in flight
HalfOpenInFlight ==
  [c \in {q \in BagToSet(calls) : q.hoPass /\ q.pc = "fetching"} |-> calls[c]]

\* C5: with halfOpenRequestThreshold = h, at most h calls that passed the
\* breaker check (at call start or at the re-check after a backoff wait) in
\* one half-open phase have a transport attempt in flight at the same time
C5_HalfOpenBound ==
  (circuitBreakerOptions.enabled /\ cb.circuitState = "half-open")
  => BagCardinality(HalfOpenInFlight) <= circuitBreakerOptions.halfOpenRequestThreshold

\* the step just taken returned a value to the caller of a half-open trial
TrialReturned ==
  /\ circuitBreakerOptions.enabled
  /\ last.self.trial
  /\ last.self.pc = "returned"

\* the step just taken handled the 2xx response of a half-open trial
TrialSucceeded ==
  /\ circuitBreakerOptions.enabled
  /\ last.self.trial
  /\ last.action = "FetchResolve"
  /\ RegisteredSuccess

\* C6 as stated: when a call admitted as a half-open trial returns a 2xx
\* result, the breaker is 'closed' with failureCount 0 and halfOpenRequests 0
C6_Original ==
  TrialReturned
  => (cb.circuitState = "closed" /\ cb.failureCount = 0 /\ cb.halfOpenRequests = 0)

\* C6 amended: when the 2xx response of a half-open trial is handled while
\* the breaker is still 'half-open', the breaker is 'closed' with
\* failureCount 0 and halfOpenRequests 0 right after registerSuccess(); when
\* another call has re-opened the breaker meanwhile, the success leaves the
\* breaker as it was
C6_TrialSuccessCloses ==
  TrialSucceeded
  => IF last.before.circuitState = "half-open"
     THEN cb.circuitState = "closed" /\ cb.failureCount = 0 /\ cb.halfOpenRequests = 0
     ELSE IF last.before.circuitState = "open" THEN cb = last.before
     ELSE cb.circuitState = "closed" /\ cb.failureCount = 0

\* C6 witness: a trial's 2xx response closed a half-open breaker while
\* another call was in its backoff wait
C6_Witness ==
  /\ TrialSucceeded
  /\ last.before.circuitState = "half-open"
  /\ last.before.halfOpenRequests = 1
  /\ cb.circuitState = "closed"
  /\ \E d \in BagToSet(calls) : d.pc = "waiting"

\* C7: the breaker is never 'half-open' with halfOpenRequests at the limit
\* while no call is in progress
C7_SlotGivenBack ==
  ~ ( /\ circuitBreakerOptions.enabled
      /\ cb.circuitState = "half-open"
      /\ cb.halfOpenRequests >= circuitBreakerOptions.halfOpenRequestThreshold
      /\ calls = EmptyBag )

\* the step just taken began a call while the breaker was 'open' and less
\* than resetTimeoutMs had passed since lastFailureTime
StartedWhileOpen ==
  /\ circuitBreakerOptions.enabled
  /\ last.action = "Start"
  /\ last.before.circuitState = "open"
  /\ ElapsedBefore < circuitBreakerOptions.resetTimeoutMs

\* C8: a call that starts while the breaker is 'open' and less than
\* resetTimeoutMs has passed since lastFailureTime throws the circuit-open
\* error at once: no authenticate(), no fetch(), no backoff wait, and the
\* breaker is left as it was
C8_OpenFailsFast ==
  /\ StartedWhileOpen
     => /\ last.self.pc = "thrown"
        /\ last.self.lastError = CircuitOpenError
        /\ last.self.authCount = 0
        /\ last.self.fetchCount = 0
        /\ last.self.waitCount = 0
        /\ last.self.attempt = 0
        /\ cb = last.before
  /\ (last.self.pc = "thrown" /\ last.self.authCount = 0)
     => /\ IsCircuitError(last.self.lastError)
        /\ last.self.fetchCount = 0
        /\ last.self.waitCount = 0

\* C8 witness: a call was rejected at its start, less than resetTimeoutMs
\* after the failure that opened the breaker
C8_Witness ==
  /\ StartedWhileOpen
  /\ last.self.pc = "thrown"
  /\ last.self.lastError = CircuitOpenError

\* the call was admitted, authenticated, and every response it got was a 503
Always503(c) == c.all503 /\ c.fetchCount >= 1

\* C9 as stated: with retries = r, a call answered 503 on every attempt makes
\* exactly r+1 transport attempts and fails with the error of the exhausted
\* retries, under every breaker setting
C9_Original ==
  (last.self.pc = "thrown" /\ Always503(last.self))
  => /\ last.self.fetchCount = retryOptions.retries + 1
     /\ ~IsCircuitError(last.self.lastError)

\* C9 amended: with retries = r, a call answered 503 on every attempt never
\* returns a value; unless a re-check before a retry rejects it (possible
\* only with the breaker enabled) it makes exactly r+1 transport attempts,
\* r backoff waits, and throws the RetryableError of the last attempt
C9_RetryBudget ==
  \A c \in Observed :
    Always503(c) =>
      /\ c.pc # "returned"
      /\ c.fetchCount <= retryOptions.retries + 1
      /\ c.pc = "thrown" =>
           /\ IsCircuitError(c.lastError) => circuitBreakerOptions.enabled
           /\ ~IsCircuitError(c.lastError) =>
                /\ c.fetchCount = retryOptions.retries + 1
                /\ c.waitCount = retryOptions.retries
                /\ c.lastError = RetryableError(503)

\* C9 witness: with the breaker enabled and retries = 1, a call answered 503
\* twice has thrown after its second attempt
C9_Witness ==
  /\ circuitBreakerOptions.enabled
  /\ retryOptions.retries = 1
  /\ last.self.pc = "thrown"
  /\ Always503(last.self)
  /\ last.self.fetchCount = 2
  /\ last.self.lastError = RetryableError(503)

\* the call ended because its last permitted attempt failed with 429 or 5xx
Exhausted(c) ==
  /\ c.pc = "thrown"
  /\ c.lastError.msg = "http" /\ isRetryable(c.lastError.status)
  /\ c.attempt = retryOptions.retries + 1

AuthFailed == last.self.pc = "thrown" /\ last.self.lastError = AuthError

\* C11: when authenticate() throws, the call has invoked authenticate() once,
\* throws the authentication error in the same step, has issued no fetch(),
\* has waited for no retry and has never called registerFailure(); the breaker
\* fields are those held before the failure
C11_AuthFailsFast ==
  /\ AuthFailed
     => /\ last.action = "AuthDone"
        /\ last.self.authCount = 1
        /\ last.self.fetchCount = 0
        /\ last.self.waitCount = 0
        /\ last.self.attempt = 0
        /\ last.self.regFails = 0
        /\ last.ops = <<>>
        /\ cb = last.before
  /\ (last.action = "AuthDone" /\ last.self.pc # "fetching") => AuthFailed
  /\ \A c \in Observed : c.authCount <= 1

\* C11 witness: authenticate() threw in a call made while the breaker was
\* 'closed' with one failure counted
C11_Witness ==
  /\ AuthFailed
  /\ circuitBreakerOptions.enabled
  /\ retryOptions.retries = 1
  /\ last.before.circuitState = "closed"
  /\ last.before.failureCount = 1

\* C12: every backoff wait is followed by a checkCircuitBreaker() before the
\* next fetch(): a call past its n-th wait has made n+1 checks and at most
\* n+1 fetches; when the re-check throws, the call ends in that step with the
\* error checkCircuitBreaker() threw and has issued no fetch() since the wait
C12_RecheckBeforeRetry ==
  /\ \A c \in Observed :
       /\ c.fetchCount <= c.checks
       /\ c.pc \notin {"idle", "waiting"} => c.checks = c.waitCount + 1
       /\ c.pc = "waiting" => c.checks = c.waitCount /\ c.fetchCount = c.waitCount
  /\ last.action = "TimerFired"
     => /\ CheckPassed \/ CheckThrew
        /\ CheckThrew => /\ last.self.pc = "thrown"
                         /\ IsCircuitError(last.self.lastError)
                         /\ last.self.lastError.name = "Error"
                         /\ last.self.fetchCount = last.self.waitCount
        /\ CheckPassed => /\ last.self.pc = "fetching"
                          /\ last.self.fetchCount = last.self.waitCount + 1

\* C12 witness: the breaker was 'open' when a call's backoff wait ended; the
\* re-check threw and the call ended after its single fetch()
C12_Witness ==
  /\ last.action = "TimerFired"
  /\ CheckThrew
  /\ last.before.circuitState = "open"
  /\ last.self.pc = "thrown"
  /\ last.self.lastError = CircuitOpenError
  /\ last.self.fetchCount = 1
  /\ last.self.waitCount = 1

\* the statuses the retry policy retries
RetriedStatuses == {429} \cup (500..599)

\* the step just taken handled an attempt that ended with a non-2xx status
\* outside 429 and 5xx, or with a network error of fetch()
TerminalAttempt ==
  /\ last.action \in {"TextDone", "FetchReject"}
  /\ \/ last.self.lastError = NetworkError
     \/ /\ last.self.lastError.msg = "http"
        /\ last.self.lastError.status \notin RetriedStatuses

\* C13: an attempt that ends with a non-2xx status outside 429 and 5xx, or
\* with a network error, ends the call in the same step: no backoff wait and
\* no fetch() follow, registerFailure() is applied exactly once for it, and
\* the error thrown is that attempt's error; a call waits for a retry only
\* after a 429 or 5xx response
C13_TerminalFailure ==
  /\ TerminalAttempt
     => /\ last.self.pc = "thrown"
        /\ last.ops = <<"registerFailure">>
        /\ cb = registerFailure(last.before, now)
        /\ last.self.fetchCount = last.self.waitCount + 1
        /\ last.self.regFails = last.self.waitCount + 1
        /\ \/ last.self.lastError = NetworkError
           \/ last.self.lastError = ExternalServiceError(last.self.lastError.status)
  /\ \A c \in BagToSet(calls) :
       c.pc = "waiting"
       => /\ c.lastError.name = "RetryableError"
          /\ c.lastError.status \in RetriedStatuses

\* C13 witness: the second attempt of a call got a 404; the call threw the
\* ExternalServiceError of that response with one wait and two failures
\* registered
C13_Witness ==
  /\ TerminalAttempt
  /\ circuitBreakerOptions.enabled
  /\ last.self.lastError = ExternalServiceError(404)
  /\ last.self.fetchCount = 2
  /\ last.self.waitCount = 1
  /\ last.self.regFails = 2

\* the step just taken handled a fetch() aborted by the attempt's own
\* timeout while a retry was still allowed
TimedOutWithBudget ==
  /\ last.action = "FetchReject"
  /\ last.self.lastError = TimeoutError
  /\ last.self.attempt <= retryOptions.retries

\* C14: an attempt aborted by its own timeout with a retry left is handled as
\* a retryable failure: registerFailure() is applied and the call waits for
\* the backoff delay before another attempt
C14_TimeoutRetried ==
  TimedOutWithBudget
  => /\ last.self.pc = "waiting"
     /\ last.ops = <<"registerFailure">>
     /\ last.self.wakeAt > now

\* C15: a call whose signal was aborted before the call, during its
\* authenticate() or during an attempt has no fetch() in flight that was
\* started after the abort: the attempt in flight is aborted and no further
\* attempt starts
C15_CancelEndsCall ==
  \A c \in Observed :
    c.abortedAt \in {"idle", "authenticating", "fetching"} => c.pc # "fetching"

\* C16: a call whose signal was aborted during a backoff wait starts no
\* further fetch()
C16_CancelEndsWait ==
  \A c \in Observed : c.abortedAt = "waiting" => c.pc # "fetching"

\* the step just taken handled the parse failure of a 2xx response body
ParseFailed == last.action = "JsonDone" /\ last.self.lastError = ParseError

\* C17: a 2xx response whose body fails to parse ends the call in that step
\* with an error and without a retry, and a half-open trial that ends this
\* way leaves the circuit 'open'
C17_ParseFailureCounts ==
  (circuitBreakerOptions.enabled /\ ParseFailed)
  => /\ last.self.pc = "thrown"
     /\ last.self.fetchCount = last.self.waitCount + 1
     /\ last.self.trial => cb.circuitState = "open"

\* the bounds of the delay as rationals
MinDelay == Rat(retryOptions.minTimeout, 1)
MaxDelay == Rat(retryOptions.maxTimeout, 1)

\* C18 as stated: for every attempt n >= 1 and every random draw the delay
\* lies in [minTimeout, maxTimeout], also when minTimeout > maxTimeout
C18_Original ==
  retryDelay.attempt >= 1
  => RatLeq(MinDelay, retryDelay.value) /\ RatLeq(retryDelay.value, MaxDelay)

\* C18 amended: for every attempt n >= 1 and every random draw the delay
\* lies in [minTimeout, maxTimeout] when minTimeout <= maxTimeout, and is
\* exactly minTimeout (above maxTimeout) when minTimeout > maxTimeout
C18_DelayClamped ==
  retryDelay.attempt >= 1
  => IF retryOptions.minTimeout <= retryOptions.maxTimeout
     THEN RatLeq(MinDelay, retryDelay.value) /\ RatLeq(retryDelay.value, MaxDelay)
     ELSE /\ RatLeq(MinDelay, retryDelay.value) /\ RatLeq(retryDelay.value, MinDelay)
          /\ ~RatLeq(retryDelay.value, MaxDelay)

\* C18 witness: with jitter on, a draw of 0 halves the first delay, which is
\* clamped up to minTimeout
C18_Witness ==
  /\ retryOptions.randomize
  /\ retryOptions.minTimeout = 2
  /\ retryOptions.maxTimeout = 3
  /\ retryDelay.attempt = 1
  /\ retryDelay.rnd = 0
  /\ retryDelay.value = Rat(2, 1)

\* the step just taken issued the fetch() of an attempt
AttemptStarted ==
  last.action \in {"AuthDone", "TimerFired"} /\ last.self.pc = "fetching"

HealthStepped == last.action \in {"HealthStart", "HealthAuthDone", "HealthFetchDone"}

\* C20: no step of healthCheck() or checkHealth() calls a breaker operation
\* or changes a breaker field; a health check is started in every breaker
\* state and its result is true exactly when the fetch() of the last path
\* probed got a 2xx response; each path is given one authenticate() and at
\* most one fetch()
C20_HealthBypassesBreaker ==
  /\ HealthStepped => (cb = last.before /\ last.ops = <<>>)
  /\ health.auths <= 1
  /\ health.fetches <= 1
  /\ health.pc = "fetching" => health.fetches = 1
  /\ health.pc = "done"
     => /\ health.auths = 1
        /\ health.outcome \in {"2xx", "non-2xx", "error", "timeout", "auth"}
        /\ health.result = (IF health.outcome = "2xx" THEN "true" ELSE "false")
        /\ health.fetches = (IF health.outcome = "auth" THEN 0 ELSE 1)
        /\ health.path = "fallback" => health.method = "checkHealth"

\* C20 witness: with the breaker 'open', checkHealth() has returned true from
\* its fallback path
C20_Witness ==
  /\ circuitBreakerOptions.enabled
  /\ cb.circuitState = "open"
  /\ last.action = "HealthFetchDone"
  /\ last.before = cb
  /\ health.pc = "done"
  /\ health.method = "checkHealth"
  /\ health.path = "fallback"
  /\ health.result = "true"

\* the object getCircuitBreakerStats() is to return for the breaker fields b
StatsOf(b) ==
  [enabled |-> circuitBreakerOptions.enabled,
   state |-> b.circuitState,
   failureCount |-> b.failureCount,
   lastFailureTime |-> IF b.lastFailureTime = 0 THEN Null ELSE <<b.lastFailureTime>>]

\* a getCircuitBreakerStats() call returns the fields as they are and leaves
\* every field of the service as it was; a request() that starts right after
\* it finds the breaker in the state the stats reported
C21_StatsStep ==
  /\ last'.action = "GetStats"
     => /\ stats' = StatsOf(cb)
        /\ cb' = cb
        /\ UNCHANGED <<retryOptions, circuitBreakerOptions, calls, now>>
  /\ (last.action = "GetStats" /\ last'.action = "Start")
     => last'.before.circuitState = stats.state

\* C21: getCircuitBreakerStats() returns the current enabled flag, state,
\* failureCount and lastFailureTime and changes nothing (an 'open' breaker
\* whose reset timeout has passed stays 'open'), and the state it reports is
\* the one the next breaker check starts from
C21_StatsReadOnly == [][C21_StatsStep]_vars

\* C21 witness: the stats were read while the breaker was 'open' and more than
\* resetTimeoutMs had passed since the last failure; they report 'open'
C21_Witness ==
  /\ circuitBreakerOptions.enabled
  /\ last.action = "GetStats"
  /\ cb.circuitState = "open"
  /\ now - cb.lastFailureTime > circuitBreakerOptions.resetTimeoutMs
  /\ stats.state = "open"
  /\ stats.lastFailureTime = <<cb.lastFailureTime>>

\* the step just taken was the registerSuccess() that closed a half-open
\* breaker
TrialClosed ==
  /\ circuitBreakerOptions.enabled
  /\ RegisteredSuccess
  /\ last.before.circuitState = "half-open"
  /\ cb.circuitState = "closed"

\* a step that moves the breaker to 'closed' leaves failureCount 0, no
\* lastFailureTime and halfOpenRequests 0, and the stats read right after a
\* half-open trial closed the breaker report failureCount 0 and no
\* lastFailureTime
C22_ClosingStep ==
  /\ (circuitBreakerOptions.enabled /\ cb.circuitState # "closed"
        /\ cb'.circuitState = "closed")
     => (cb'.failureCount = 0 /\ cb'.lastFailureTime = 0 /\ cb'.halfOpenRequests = 0)
  /\ (TrialClosed /\ last'.action = "GetStats")
     => (stats'.failureCount = 0 /\ stats'.lastFailureTime = Null)

\* C22: on every transition into 'closed' the breaker fields are reset to
\* failureCount 0, no lastFailureTime and halfOpenRequests 0, so right after
\* a half-open trial closes the breaker getCircuitBreakerStats() reports
\* failureCount 0 and lastFailureTime null
C22_ClosedResetsRuntime == [][C22_ClosingStep]_vars

\* C23: with enabled = false every breaker check passes, no call throws a
\* circuit error, and the breaker stays 'closed' with failureCount 0, no
\* lastFailureTime and halfOpenRequests 0 whatever the calls and their
\* outcomes
C23_DisabledBreaker ==
  ~circuitBreakerOptions.enabled
  => /\ cb = [circuitState |-> "closed", failureCount |-> 0,
              lastFailureTime |-> 0, halfOpenRequests |-> 0]
     /\ ~CheckThrew
     /\ last.action \in {"Start", "TimerFired"} => CheckPassed
     /\ last.action = "Start" => last.self.pc = "authenticating"
     /\ \A c \in Observed : ~IsCircuitError(c.lastError)
     /\ StatsOf(cb).lastFailureTime = Null

\* C23 witness: with the breaker disabled, a call threw after its second
\* failed attempt, both registered, while another call was in progress
C23_Witness ==
  /\ ~circuitBreakerOptions.enabled
  /\ RegisteredFailure
  /\ last.self.pc = "thrown"
  /\ last.self.regFails = 2
  /\ calls # EmptyBag
  /\ cb.circuitState = "closed"

\* how the step just taken may have ended a call: a returned value follows a
\* 2xx response for which registerSuccess() was applied and no failure is
\* registered in that step; a thrown error is a captured one; a step that
\* handled a failed attempt never returns a value
C24_Outcome ==
  /\ last.self.pc = "returned"
     => /\ last.action \in {"FetchResolve", "JsonDone"}
        /\ last.self.regSuccs = 1
        /\ ~RegisteredFailure
        /\ last.action = "FetchResolve" => RegisteredSuccess
  /\ last.self.pc = "thrown" => last.self.lastError # NoError
  /\ last.action \in {"TextDone", "FetchReject", "TimerFired"}
     => last.self.pc \in {"thrown", "waiting", "fetching"}
  /\ (last.action = "FetchResolve" /\ RegisteredSuccess)
     => last.self.pc \in {"returned", "readingJson"}
  /\ \A c \in BagToSet(calls) :
       c.pc \in {"authenticating", "fetching", "readingJson", "readingText", "waiting"}

C25_FailuresLinearized ==
  circuitBreakerOptions.enabled
  => /\ (RegisteredFailure /\ last.before.circuitState = "closed")
        => cb.failureCount = last.before.failureCount + 1
     /\ cb.circuitState = "closed" => cb.failureCount = failuresSinceSuccess
     /\ (RegisteredFailure
           /\ failuresSinceSuccess >= circuitBreakerOptions.failureThreshold)
        => cb.circuitState = "open"

\* C25 witness: two calls in progress each registered one failure, one after
\* the other; the second one opened a breaker whose threshold is 2
C25_Witness ==
  /\ circuitBreakerOptions.enabled
  /\ circuitBreakerOptions.failureThreshold = 2
  /\ RegisteredFailure
  /\ last.before.circuitState = "closed"
  /\ last.before.failureCount = 1
  /\ cb.circuitState = "open"
  /\ last.self.regFails = 1
  /\ \E d \in BagToSet(calls) : d # last.self /\ d.regFails = 1 /\ d.pc = "waiting"

\* C26: a registerSuccess() applied while 'open' leaves every breaker field
\* as it was, and a step that leaves 'open' is a breaker check made more than
\* resetTimeoutMs after lastFailureTime, which moves to 'half-open'
C26_SuccessWhileOpen ==
  circuitBreakerOptions.enabled
  => /\ (RegisteredSuccess /\ last.before.circuitState = "open") => cb = last.before
     /\ (last.before.circuitState = "open" /\ cb.circuitState # "open")
        => /\ CheckPassed
           /\ cb.circuitState = "half-open"
           /\ ElapsedBefore > circuitBreakerOptions.resetTimeoutMs

\* C26 witness: a call admitted while 'closed' got its 2xx response after
\* another call's failure had opened the breaker
C26_Witness ==
  /\ circuitBreakerOptions.enabled
  /\ last.action = "FetchResolve"
  /\ RegisteredSuccess
  /\ ~last.self.trial
  /\ last.self.checks = 1
  /\ last.before.circuitState = "open"
  /\ cb = last.before

\* C27: a call rejected by a breaker check, at its start or at the re-check
\* before a retry, registers no failure: the breaker's state, failureCount
\* and lastFailureTime are those the rejecting check left
C27_RejectionNotRecorded ==
  (circuitBreakerOptions.enabled /\ CheckThrew)
  => /\ ~RegisteredFailure
     /\ cb.circuitState = last.before.circuitState
     /\ cb.failureCount = last.before.failureCount
     /\ cb.lastFailureTime = last.before.lastFailureTime

\* C28: every step that changes circuitState is 'closed' to 'open' by a
\* registerFailure() that brings failureCount to failureThreshold, 'open' to
\* 'half-open' by a breaker check made more than resetTimeoutMs after
\* lastFailureTime, 'half-open' to 'closed' by registerSuccess(), or
\* 'half-open' to 'open' by registerFailure()
C28_Transitions ==
  (circuitBreakerOptions.enabled /\ cb.circuitState # last.before.circuitState)
  => \/ /\ last.before.circuitState = "closed"
        /\ cb.circuitState = "open"
        /\ RegisteredFailure
        /\ cb.failureCount = circuitBreakerOptions.failureThreshold
     \/ /\ last.before.circuitState = "open"
        /\ cb.circuitState = "half-open"
        /\ CheckPassed
        /\ ~RegisteredFailure /\ ~RegisteredSuccess
        /\ ElapsedBefore > circuitBreakerOptions.resetTimeoutMs
     \/ /\ last.before.circuitState = "half-open"
        /\ cb.circuitState = "closed"
        /\ RegisteredSuccess
     \/ /\ last.before.circuitState = "half-open"
        /\ cb.circuitState = "open"
        /\ RegisteredFailure

\* C28 witness: the re-check after a backoff wait moved the breaker from
\* 'open' to 'half-open'
C28_Witness ==
  /\ circuitBreakerOptions.enabled
  /\ last.action = "TimerFired"
  /\ CheckPassed
  /\ last.before.circuitState = "open"
  /\ cb.circuitState = "half-open"

\* C29: with the breaker enabled, 'closed' implies failureCount <
\* failureThreshold, 'open' or 'half-open' implies failureCount >=
\* failureThreshold, and halfOpenRequests never exceeds
\* halfOpenRequestThreshold
C29_BreakerInvariant ==
  circuitBreakerOptions.enabled
  => /\ cb.circuitState = "closed"
        => cb.failureCount < circuitBreakerOptions.failureThreshold
     /\ cb.circuitState \in {"open", "half-open"}
        => cb.failureCount >= circuitBreakerOptions.failureThreshold
     /\ cb.halfOpenRequests <= circuitBreakerOptions.halfOpenRequestThreshold
     /\ cb.failureCount >= 0 /\ cb.halfOpenRequests >= 0

\* C29 witness: a breaker with threshold 2 was closed again by a half-open
\* trial and then counted one new failure
C29_Witness ==
  /\ circuitBreakerOptions.enabled
  /\ circuitBreakerOptions.failureThreshold = 2
  /\ cb.circuitState = "closed"
  /\ cb.failureCount = 1
  /\ cb.lastFailureTime > 1
  /\ RegisteredFailure

\* C30: the loop of request() is never left without a captured error (the
\* 'Request loop completed without success or error capture.' error is never
\* thrown), a call in its backoff wait has made at most `retries` attempts,
\* and a wait whose re-check passes is followed by the next attempt
C30_LoopSafeguard ==
  /\ \A c \in Observed : c.lastError # UnexpectedError
  /\ last.self.pc = "thrown" => last.self.lastError # NoError
  /\ \A c \in BagToSet(calls) :
       c.pc = "waiting" => (c.attempt >= 1 /\ c.attempt <= retryOptions.retries
                              /\ c.lastError # NoError)
  /\ (last.action = "TimerFired" /\ CheckPassed)
     => /\ last.self.pc = "fetching"
        /\ last.self.attempt = last.self.waitCount + 1
        /\ last.self.attempt <= retryOptions.retries + 1

\* C30 witness: after its backoff wait and a re-check that passed, a call
\* began the last attempt its retries allow
C30_Witness ==
  /\ last.action = "TimerFired"
  /\ CheckPassed
  /\ last.self.pc = "fetching"
  /\ last.self.attempt = retryOptions.retries + 1
  /\ last.self.lastError # NoError

====
